---- MODULE Spec2Model ----
(***************************************************************************)
(* sshesame: the bootstrap and connection-acceptance layer of an SSH       *)
(* honeypot (src/main.go).  main() provisions a host key, builds the       *)
(* ssh.ServerConfig, binds the listener and runs the accept loop; every    *)
(* accepted connection is supervised by its own handleConn goroutine.      *)
(***************************************************************************)
EXTENDS Naturals, Integers, Sequences, FiniteSets, TLC

(* ------------------------------ bounds -------------------------------- *)
\* calls of listener.Accept() that return in one run (a connection or an error)
MaxAccepts == 2
\* channels the clients open in one run, over all connections
MaxChans == 2
\* global requests the clients send in one run, over all connections
MaxReqs == 2

Conns == 1..MaxAccepts
Chans == 1..MaxChans
Reqs == 1..MaxReqs

\* the goroutines that write log records: main() and one handleConn per connection
Main == 0
Writers == {Main} \cup Conns

\* the {user, password} pairs clients try; the password is the []byte the
\* callback receives ("h2" and the empty password)
Credentials == {<<"root", <<104, 50>>>>, <<"admin", <<>>>>}

(* The logging sink takes whole records from every goroutine.  Each goroutine *)
(* writes its records one after the other, so the sink is kept as one        *)
(* sequence per writing goroutine, in emission order; the order between      *)
(* records of different goroutines is the scheduler's and is not kept.       *)
(* The password callback runs inside ssh.NewServerConn, on the connection's  *)
(* goroutine.                                                                *)
VARIABLES
    hostKey,      \* the -host_key flag: "" or a file's path
    offered,      \* the {user, password} pair the clients of this run try
    pc,           \* main()'s position
    key,          \* var key ssh.Signer
    hostKeys,     \* serverConfig's host keys (AddHostKey), <<>> before the config exists
    listener,     \* "none" | "open"
    log,          \* the logging sink: per writing goroutine, its records in emission order
    nAccepted,    \* connections Accept() has returned so far
    nAcceptErrs,  \* Accept() errors so far
    hpc,          \* handleConn's position, per connection
    sock,         \* the connection's socket: "none" | "open" | "closed"
    authOK,       \* the handshake's authentication has succeeded, per connection
    authCalls,    \* per connection: the PasswordCallback invocations, with their results
    streamsEnded, \* the connection's channel and request streams are closed
    opened,       \* per connection: the channels the client has opened, in order
    chanQueue,    \* the ChannelStream: channels opened and not yet received
    chanCalls,    \* per connection: the channel.Handle invocations (go statements executed)
    chanTask,     \* per channel: "none" | "running" | "done"
    reqCalls,     \* per connection: the request.Handle invocations
    reqTask,      \* per connection: "none" | "running" | "done"
    goroutines,   \* per connection: the functions started for it with a go statement
    reqSent,      \* per connection: the global requests the client has sent, in order
    reqQueue,     \* the GlobalRequestStream: requests arrived and not yet received
    reqSeen       \* per connection: the requests request.Handle has received, in order

vars == <<hostKey, offered, pc, key, hostKeys, listener, log, nAccepted, nAcceptErrs, hpc, sock,
          authOK, authCalls, streamsEnded, opened, chanQueue, chanCalls,
          chanTask, reqCalls, reqTask, goroutines, reqSent, reqQueue, reqSeen>>

mainVars == <<pc, key, hostKeys, listener, nAccepted, nAcceptErrs>>
connVars == <<hpc, sock, authOK, authCalls, streamsEnded>>
chanVars == <<opened, chanQueue, chanCalls, chanTask>>
reqVars  == <<reqCalls, reqTask>>
reqStream == <<reqSent, reqQueue, reqSeen>>

(* ------------------------------ values -------------------------------- *)
\* conn.RemoteAddr(): the peer's address, distinct per TCP connection
RemoteAddr(c) == <<"198.51.100.7", 40000 + c>>
NoAddr == <<>>

\* conn.ClientVersion(): the []byte of the client's identification string
\* ("SSH" and a digit that differs per client)
ClientVersion(c) == <<83, 83, 72, 48 + c>>

\* string(b) of a []byte: the same bytes, in the same order
GoString(b) == [i \in 1..Len(b) |-> b[i]]

\* sha256.Sum256(key.PublicKey().Marshal())
Fingerprint(k) == <<"sha256", k>>

\* one logrus record: level, message and the fields set with WithFields
Entry(level, msg) ==
    [level |-> level, msg |-> msg, client |-> NoAddr, user |-> "",
     password |-> <<>>, version |-> <<>>, fingerprint |-> <<>>]

\* the sink after goroutine w has written record e
Emit(w, e) == [log EXCEPT ![w] = Append(@, e)]

MsgTempKey      == "Using a temporary host key, consider creating a permanent one and passing it to -host_key"
MsgAuthAccepted == "Password authentication accepted"
MsgListening    == "Listening"
MsgConnected    == "Client connected"
MsgEstablished  == "SSH connection established"
MsgDisconnected == "Client disconnected"
MsgAcceptFailed == "Failed to accept connection:"
MsgHandshakeFailed == "Failed to establish SSH connection:"

\* the records of l with message msg, in order
RECURSIVE SelectMsg(_, _)
SelectMsg(l, msg) ==
    IF l = <<>> THEN <<>>
    ELSE (IF Head(l).msg = msg THEN <<Head(l)>> ELSE <<>>) \o SelectMsg(Tail(l), msg)

\* how many records with message msg goroutine w has written
CountMsg(w, msg) == Len(SelectMsg(log[w], msg))

\* how many records with message msg the sink holds
RECURSIVE SumMsg(_, _)
SumMsg(W, msg) ==
    IF W = {} THEN 0
    ELSE LET w == CHOOSE x \in W : TRUE IN CountMsg(w, msg) + SumMsg(W \ {w}, msg)

\* the position in l of the first record with message msg, 0 when there is none
FirstMsg(l, msg) ==
    IF \E i \in 1..Len(l) : l[i].msg = msg
    THEN CHOOSE i \in 1..Len(l) : l[i].msg = msg /\ \A j \in 1..(i-1) : l[j].msg # msg
    ELSE 0

\* the process is alive: log.Fatal (os.Exit) ends every goroutine
Running == pc # "exited"

\* channels opened so far in the run
RECURSIVE TotalOpened(_)
TotalOpened(C) ==
    IF C = {} THEN 0
    ELSE LET c == CHOOSE x \in C : TRUE IN Len(opened[c]) + TotalOpened(C \ {c})

(* ------------------------------- Init --------------------------------- *)
Init ==
    /\ hostKey \in {"", "host.key"}
    /\ offered \in Credentials
    /\ pc = "provision"
    /\ key = "nil"
    /\ hostKeys = <<>>
    /\ listener = "none"
    /\ log = [w \in Writers |-> <<>>]
    /\ nAccepted = 0
    /\ nAcceptErrs = 0
    /\ hpc = [c \in Conns |-> "unborn"]
    /\ sock = [c \in Conns |-> "none"]
    /\ authOK = [c \in Conns |-> FALSE]
    /\ authCalls = [c \in Conns |-> <<>>]
    /\ streamsEnded = [c \in Conns |-> FALSE]
    /\ opened = [c \in Conns |-> <<>>]
    /\ chanQueue = [c \in Conns |-> <<>>]
    /\ chanCalls = [c \in Conns |-> <<>>]
    /\ chanTask = [k \in Chans |-> "none"]
    /\ reqCalls = [c \in Conns |-> <<>>]
    /\ reqTask = [c \in Conns |-> "none"]
    /\ goroutines = [c \in Conns |-> <<>>]
    /\ reqSent = [c \in Conns |-> <<>>]
    /\ reqQueue = [c \in Conns |-> <<>>]
    /\ reqSeen = [c \in Conns |-> <<>>]

(* --------------------------- main: startup ---------------------------- *)
\* log.Fatal: the record is written, then the process exits
Fatal(msg) ==
    /\ log' = Emit(Main, Entry("fatal", msg))
    /\ pc' = "exited"

\* ioutil.ReadFile(*hostKey) fails
ReadHostKeyFails ==
    /\ pc = "provision"
    /\ hostKey # ""
    /\ Fatal("Failed to read host key:")
    /\ UNCHANGED <<hostKey, offered, reqStream, goroutines, key, hostKeys, listener, nAccepted, nAcceptErrs,
                   connVars, chanVars, reqVars>>

\* mutant of ParseHostKeyFails: the error is logged with log.Warning and
\* startup goes on without a key
ParseHostKeyFails_Continues ==
    /\ pc = "provision"
    /\ hostKey # ""
    /\ log' = Emit(Main, Entry("warning", "Failed to parse host key:"))
    /\ pc' = "config"
    /\ UNCHANGED <<hostKey, offered, reqStream, goroutines, key, hostKeys, listener, nAccepted, nAcceptErrs,
                   connVars, chanVars, reqVars>>

\* the file is read and ssh.ParsePrivateKey fails
ParseHostKeyFails ==
    /\ pc = "provision"
    /\ hostKey # ""
    /\ Fatal("Failed to parse host key:")
    /\ UNCHANGED <<hostKey, offered, reqStream, goroutines, key, hostKeys, listener, nAccepted, nAcceptErrs,
                   connVars, chanVars, reqVars>>

\* mutant of LoadHostKey: the temporary-key warning is logged on this branch too
LoadHostKey_Warns ==
    /\ pc = "provision"
    /\ hostKey # ""
    /\ key' = "persistent"
    /\ log' = Emit(Main, [Entry("warning", MsgTempKey)
                             EXCEPT !.fingerprint = Fingerprint("persistent")])
    /\ pc' = "config"
    /\ UNCHANGED <<hostKey, offered, reqStream, goroutines, hostKeys, listener, nAccepted, nAcceptErrs,
                   connVars, chanVars, reqVars>>

\* the file is read and parsed: key is the file's key
LoadHostKey ==
    /\ pc = "provision"
    /\ hostKey # ""
    /\ key' = "persistent"
    /\ pc' = "config"
    /\ UNCHANGED <<hostKey, offered, reqStream, goroutines, hostKeys, listener, log, nAccepted, nAcceptErrs,
                   connVars, chanVars, reqVars>>

\* ed25519.GenerateKey(nil) fails
GenerateKeyFails ==
    /\ pc = "provision"
    /\ hostKey = ""
    /\ Fatal("Failed to generate temporary private key:")
    /\ UNCHANGED <<hostKey, offered, reqStream, goroutines, key, hostKeys, listener, nAccepted, nAcceptErrs,
                   connVars, chanVars, reqVars>>

\* the key is generated and ssh.NewSignerFromSigner fails
NewSignerFails ==
    /\ pc = "provision"
    /\ hostKey = ""
    /\ Fatal("Failed to parse generated private key:")
    /\ UNCHANGED <<hostKey, offered, reqStream, goroutines, key, hostKeys, listener, nAccepted, nAcceptErrs,
                   connVars, chanVars, reqVars>>

\* the key is generated, wrapped, and its fingerprint logged at warning level
GenerateTempKey ==
    /\ pc = "provision"
    /\ hostKey = ""
    /\ key' = "ephemeral"
    /\ log' = Emit(Main, [Entry("warning", MsgTempKey)
                             EXCEPT !.fingerprint = Fingerprint("ephemeral")])
    /\ pc' = "config"
    /\ UNCHANGED <<hostKey, offered, reqStream, goroutines, hostKeys, listener, nAccepted, nAcceptErrs,
                   connVars, chanVars, reqVars>>

\* serverConfig := &ssh.ServerConfig{...}; serverConfig.AddHostKey(key)
BuildServerConfig ==
    /\ pc = "config"
    /\ hostKeys' = Append(hostKeys, key)
    /\ pc' = "listen"
    /\ UNCHANGED <<hostKey, offered, reqStream, goroutines, key, listener, log, nAccepted, nAcceptErrs,
                   connVars, chanVars, reqVars>>

\* net.Listen fails
ListenFails ==
    /\ pc = "listen"
    /\ Fatal("Failed to listen:")
    /\ UNCHANGED <<hostKey, offered, reqStream, goroutines, key, hostKeys, listener, nAccepted, nAcceptErrs,
                   connVars, chanVars, reqVars>>

\* net.Listen succeeds: the address is bound and "Listening" logged
Listen ==
    /\ pc = "listen"
    /\ listener' = "open"
    /\ log' = Emit(Main, Entry("info", MsgListening))
    /\ pc' = "accept"
    /\ UNCHANGED <<hostKey, offered, reqStream, goroutines, key, hostKeys, nAccepted, nAcceptErrs,
                   connVars, chanVars, reqVars>>

(* ------------------------- main: accept loop -------------------------- *)
\* mutant of AcceptFails: the error is logged with log.Fatal
AcceptFails_Fatal ==
    /\ pc = "accept"
    /\ nAccepted + nAcceptErrs < MaxAccepts
    /\ nAcceptErrs' = nAcceptErrs + 1
    /\ Fatal(MsgAcceptFailed)
    /\ UNCHANGED <<hostKey, offered, reqStream, goroutines, key, hostKeys, listener, nAccepted,
                   connVars, chanVars, reqVars>>

\* listener.Accept() returns an error: a warning, then the next iteration
AcceptFails ==
    /\ pc = "accept"
    /\ nAccepted + nAcceptErrs < MaxAccepts
    /\ nAcceptErrs' = nAcceptErrs + 1
    /\ log' = Emit(Main, Entry("warning", MsgAcceptFailed))
    /\ UNCHANGED <<hostKey, offered, reqStream, goroutines, pc, key, hostKeys, listener, nAccepted,
                   connVars, chanVars, reqVars>>

\* mutant of Accept: the host key is added to the configuration in the loop
Accept_AddsHostKey ==
    /\ pc = "accept"
    /\ nAccepted + nAcceptErrs < MaxAccepts
    /\ LET c == nAccepted + 1 IN
        /\ nAccepted' = c
        /\ sock' = [sock EXCEPT ![c] = "open"]
        /\ log' = Emit(Main, [Entry("info", MsgConnected) EXCEPT !.client = RemoteAddr(c)])
        /\ hpc' = [hpc EXCEPT ![c] = "handshake"]
    /\ hostKeys' = Append(hostKeys, key)
    /\ goroutines' = [goroutines EXCEPT ![nAccepted + 1] = Append(@, "handleConn")]
    /\ UNCHANGED <<hostKey, offered, reqStream, pc, key, listener, nAcceptErrs,
                   authOK, authCalls, streamsEnded, chanVars, reqVars>>

\* mutant of Accept: handleConn is called without go, so Accept() is called
\* again only when the connection before has been handled to its end
Accept_Inline ==
    /\ pc = "accept"
    /\ nAccepted + nAcceptErrs < MaxAccepts
    /\ \A d \in Conns : hpc[d] \in {"unborn", "done"}
    /\ LET c == nAccepted + 1 IN
        /\ nAccepted' = c
        /\ sock' = [sock EXCEPT ![c] = "open"]
        /\ log' = Emit(Main, [Entry("info", MsgConnected) EXCEPT !.client = RemoteAddr(c)])
        /\ hpc' = [hpc EXCEPT ![c] = "handshake"]
    /\ goroutines' = [goroutines EXCEPT ![nAccepted + 1] = Append(@, "handleConn")]
    /\ UNCHANGED <<hostKey, offered, reqStream, pc, key, hostKeys, listener, nAcceptErrs,
                   authOK, authCalls, streamsEnded, chanVars, reqVars>>

\* listener.Accept() returns a connection: "Client connected", go handleConn
Accept ==
    /\ pc = "accept"
    /\ nAccepted + nAcceptErrs < MaxAccepts
    /\ LET c == nAccepted + 1 IN
        /\ nAccepted' = c
        /\ sock' = [sock EXCEPT ![c] = "open"]
        /\ log' = Emit(Main, [Entry("info", MsgConnected) EXCEPT !.client = RemoteAddr(c)])
        /\ hpc' = [hpc EXCEPT ![c] = "handshake"]
    /\ goroutines' = [goroutines EXCEPT ![nAccepted + 1] = Append(@, "handleConn")]
    /\ UNCHANGED <<hostKey, offered, reqStream, pc, key, hostKeys, listener, nAcceptErrs,
                   authOK, authCalls, streamsEnded, chanVars, reqVars>>

(* ----------------- handleConn: ssh.NewServerConn (line 91) ------------- *)
\* mutant of PasswordCallback: an empty password is refused
PasswordCallback_RejectsEmpty(c, user, password) ==
    [entry |-> [Entry("info", MsgAuthAccepted) EXCEPT
                   !.client = RemoteAddr(c),
                   !.user = user,
                   !.password = GoString(password),
                   !.version = GoString(ClientVersion(c))],
     perms |-> "nil",
     err |-> IF password = <<>> THEN "permission denied" ELSE "nil"]

\* mutant of PasswordCallback: the record leaves the password out
PasswordCallback_OmitsPassword(c, user, password) ==
    [entry |-> [Entry("info", MsgAuthAccepted) EXCEPT
                   !.client = RemoteAddr(c),
                   !.user = user,
                   !.version = GoString(ClientVersion(c))],
     perms |-> "nil",
     err |-> "nil"]

\* serverConfig.PasswordCallback: the record it logs and what it returns
PasswordCallback(c, user, password) ==
    [entry |-> [Entry("info", MsgAuthAccepted) EXCEPT
                   !.client = RemoteAddr(c),
                   !.user = user,
                   !.password = GoString(password),
                   !.version = GoString(ClientVersion(c))],
     perms |-> "nil",
     err |-> "nil"]

\* the client offers a password: the library invokes the callback on the
\* connection's goroutine and takes a nil error as success
PasswordAttempt(c) ==
    /\ Running
    /\ hpc[c] = "handshake"
    /\ ~authOK[c]
    /\ LET cred == offered
           r == PasswordCallback(c, cred[1], cred[2]) IN
           /\ log' = Emit(c, r.entry)
           /\ authCalls' = [authCalls EXCEPT ![c] = Append(@,
                 [client |-> RemoteAddr(c), user |-> cred[1], password |-> cred[2],
                  version |-> ClientVersion(c), perms |-> r.perms, err |-> r.err])]
           /\ authOK' = [authOK EXCEPT ![c] = (r.err = "nil")]
    /\ UNCHANGED <<hostKey, offered, reqStream, goroutines, mainVars, hpc, sock, streamsEnded, chanVars, reqVars>>

\* mutant of HandshakeSucceeds: the channel loop is started as a goroutine of
\* its own, beside the request handler
HandshakeSucceeds_SpawnsDispatch(c) ==
    /\ Running
    /\ hpc[c] = "handshake"
    /\ authOK[c]
    /\ log' = Emit(c, [Entry("info", MsgEstablished) EXCEPT !.client = RemoteAddr(c)])
    /\ reqCalls' = [reqCalls EXCEPT ![c] = Append(@,
          [client |-> RemoteAddr(c), category |-> "global", stream |-> c])]
    /\ reqTask' = [reqTask EXCEPT ![c] = "running"]
    /\ hpc' = [hpc EXCEPT ![c] = "range"]
    /\ goroutines' = [goroutines EXCEPT ![c] = @ \o <<"request.Handle", "dispatch">>]
    /\ UNCHANGED <<hostKey, offered, reqStream, mainVars, sock, authOK, authCalls, streamsEnded, chanVars>>

\* mutant of HandshakeSucceeds: the request handler is started with the
\* connection's channel category instead of "global"
HandshakeSucceeds_WrongCategory(c) ==
    /\ Running
    /\ hpc[c] = "handshake"
    /\ authOK[c]
    /\ log' = Emit(c, [Entry("info", MsgEstablished) EXCEPT !.client = RemoteAddr(c)])
    /\ reqCalls' = [reqCalls EXCEPT ![c] = Append(@,
          [client |-> RemoteAddr(c), category |-> "session", stream |-> c])]
    /\ reqTask' = [reqTask EXCEPT ![c] = "running"]
    /\ hpc' = [hpc EXCEPT ![c] = "range"]
    /\ goroutines' = [goroutines EXCEPT ![c] = Append(@, "request.Handle")]
    /\ UNCHANGED <<hostKey, offered, reqStream, mainVars, sock, authOK, authCalls, streamsEnded, chanVars>>

\* mutant of HandshakeSucceeds: the configuration lets a client in without
\* any authentication (NoClientAuth)
HandshakeSucceeds_NoClientAuth(c) ==
    /\ Running
    /\ hpc[c] = "handshake"
    /\ log' = Emit(c, [Entry("info", MsgEstablished) EXCEPT !.client = RemoteAddr(c)])
    /\ reqCalls' = [reqCalls EXCEPT ![c] = Append(@,
          [client |-> RemoteAddr(c), category |-> "global", stream |-> c])]
    /\ reqTask' = [reqTask EXCEPT ![c] = "running"]
    /\ hpc' = [hpc EXCEPT ![c] = "range"]
    /\ goroutines' = [goroutines EXCEPT ![c] = Append(@, "request.Handle")]
    /\ UNCHANGED <<hostKey, offered, reqStream, mainVars, sock, authOK, authCalls,
                   streamsEnded, chanVars>>

\* NewServerConn returns the connection and its two streams; err == nil:
\* "SSH connection established" is logged, then
\* go request.Handle(conn.RemoteAddr(), "global", requests)
HandshakeSucceeds(c) ==
    /\ Running
    /\ hpc[c] = "handshake"
    /\ authOK[c]
    /\ log' = Emit(c, [Entry("info", MsgEstablished) EXCEPT !.client = RemoteAddr(c)])
    /\ reqCalls' = [reqCalls EXCEPT ![c] = Append(@,
          [client |-> RemoteAddr(c), category |-> "global", stream |-> c])]
    /\ reqTask' = [reqTask EXCEPT ![c] = "running"]
    /\ hpc' = [hpc EXCEPT ![c] = "range"]
    /\ goroutines' = [goroutines EXCEPT ![c] = Append(@, "request.Handle")]
    /\ UNCHANGED <<hostKey, offered, reqStream, mainVars, sock, authOK, authCalls, streamsEnded, chanVars>>

\* defer conn.Close(): what the deferred call does when handleConn returns
DeferredClose(c) ==
    /\ sock' = [sock EXCEPT ![c] = "closed"]
    /\ streamsEnded' = [streamsEnded EXCEPT ![c] = TRUE]

\* mutant of HandshakeFails: the failure is logged with log.Fatal
HandshakeFails_Fatal(c) ==
    /\ Running
    /\ hpc[c] = "handshake"
    /\ log' = Emit(c, Entry("fatal", MsgHandshakeFailed))
    /\ pc' = "exited"
    /\ UNCHANGED <<hostKey, offered, reqStream, goroutines, key, hostKeys, listener, nAccepted, nAcceptErrs,
                   connVars, chanVars, reqVars>>

\* mutant of HandshakeFails: conn.Close() is not deferred, the early return
\* skips it
HandshakeFails_NoClose(c) ==
    /\ Running
    /\ hpc[c] = "handshake"
    /\ log' = Emit(c, Entry("warning", MsgHandshakeFailed))
    /\ hpc' = [hpc EXCEPT ![c] = "done"]
    /\ UNCHANGED <<hostKey, offered, reqStream, goroutines, mainVars, sock, streamsEnded, authOK, authCalls,
                   chanVars, reqVars>>

\* mutant of HandshakeFails: the return after the warning is missing, and
\* handleConn goes on as if the connection were established
HandshakeFails_FallsThrough(c) ==
    /\ Running
    /\ hpc[c] = "handshake"
    /\ log' = [log EXCEPT ![c] = @ \o
                 <<Entry("warning", MsgHandshakeFailed),
                   [Entry("info", MsgEstablished) EXCEPT !.client = RemoteAddr(c)]>>]
    /\ reqCalls' = [reqCalls EXCEPT ![c] = Append(@,
          [client |-> RemoteAddr(c), category |-> "global", stream |-> c])]
    /\ reqTask' = [reqTask EXCEPT ![c] = "running"]
    /\ streamsEnded' = [streamsEnded EXCEPT ![c] = TRUE]
    /\ hpc' = [hpc EXCEPT ![c] = "range"]
    /\ goroutines' = [goroutines EXCEPT ![c] = Append(@, "request.Handle")]
    /\ UNCHANGED <<hostKey, offered, reqStream, mainVars, sock, authOK, authCalls, chanVars>>

\* mutant of HandshakeFails: "Client disconnected" is logged on this return too
HandshakeFails_LogsDisconnected(c) ==
    /\ Running
    /\ hpc[c] = "handshake"
    /\ log' = [log EXCEPT ![c] = @ \o
                 <<Entry("warning", MsgHandshakeFailed),
                   [Entry("info", MsgDisconnected) EXCEPT !.client = RemoteAddr(c)]>>]
    /\ DeferredClose(c)
    /\ hpc' = [hpc EXCEPT ![c] = "done"]
    /\ UNCHANGED <<hostKey, offered, reqStream, goroutines, mainVars, authOK, authCalls,
                   chanVars, reqVars>>

\* NewServerConn returns an error (bad version, key exchange, peer gone, ...):
\* the warning is logged and the function returns, running the deferred close
HandshakeFails(c) ==
    /\ Running
    /\ hpc[c] = "handshake"
    /\ log' = Emit(c, Entry("warning", MsgHandshakeFailed))
    /\ DeferredClose(c)
    /\ hpc' = [hpc EXCEPT ![c] = "done"]
    /\ UNCHANGED <<hostKey, offered, reqStream, goroutines, mainVars, authOK, authCalls, chanVars, reqVars>>

(* ------------------------ handleConn: the rest ------------------------- *)
\* mutant of DispatchChannel: channel.Handle is called without go, so the
\* loop takes the next channel only when the handlers before it have returned
DispatchChannel_Inline(c) ==
    /\ Running
    /\ hpc[c] = "range"
    /\ chanQueue[c] # <<>>
    /\ \A i \in 1..Len(chanCalls[c]) : chanTask[chanCalls[c][i].chan] = "done"
    /\ LET k == Head(chanQueue[c]) IN
        /\ chanCalls' = [chanCalls EXCEPT ![c] = Append(@,
              [client |-> RemoteAddr(c), chan |-> k])]
        /\ chanTask' = [chanTask EXCEPT ![k] = "running"]
    /\ chanQueue' = [chanQueue EXCEPT ![c] = Tail(@)]
    /\ goroutines' = [goroutines EXCEPT ![c] = Append(@, "channel.Handle")]
    /\ UNCHANGED <<hostKey, offered, reqStream, mainVars, log, connVars, opened, reqVars>>

\* mutant of DispatchChannel: the loop takes the channel opened last
DispatchChannel_TakesLast(c) ==
    /\ Running
    /\ hpc[c] = "range"
    /\ chanQueue[c] # <<>>
    /\ LET k == chanQueue[c][Len(chanQueue[c])] IN
        /\ chanCalls' = [chanCalls EXCEPT ![c] = Append(@,
              [client |-> RemoteAddr(c), chan |-> k])]
        /\ chanTask' = [chanTask EXCEPT ![k] = "running"]
    /\ chanQueue' = [chanQueue EXCEPT ![c] = SubSeq(@, 1, Len(@) - 1)]
    /\ goroutines' = [goroutines EXCEPT ![c] = Append(@, "channel.Handle")]
    /\ UNCHANGED <<hostKey, offered, reqStream, mainVars, log, connVars, opened, reqVars>>

\* for newChannel := range channels { go channel.Handle(conn.RemoteAddr(), newChannel) }
\* one iteration: the next channel is received and handed to a new goroutine
DispatchChannel(c) ==
    /\ Running
    /\ hpc[c] = "range"
    /\ chanQueue[c] # <<>>
    /\ LET k == Head(chanQueue[c]) IN
        /\ chanCalls' = [chanCalls EXCEPT ![c] = Append(@,
              [client |-> RemoteAddr(c), chan |-> k])]
        /\ chanTask' = [chanTask EXCEPT ![k] = "running"]
    /\ chanQueue' = [chanQueue EXCEPT ![c] = Tail(@)]
    /\ goroutines' = [goroutines EXCEPT ![c] = Append(@, "channel.Handle")]
    /\ UNCHANGED <<hostKey, offered, reqStream, mainVars, log, connVars, opened, reqVars>>

\* mutant of ChannelStreamEnds: the loop stops as soon as the stream is
\* closed, leaving the channels still buffered in it
ChannelStreamEnds_DropsBuffered(c) ==
    /\ Running
    /\ hpc[c] = "range"
    /\ streamsEnded[c]
    /\ log' = Emit(c, [Entry("info", MsgDisconnected) EXCEPT !.client = RemoteAddr(c)])
    /\ DeferredClose(c)
    /\ hpc' = [hpc EXCEPT ![c] = "done"]
    /\ UNCHANGED <<hostKey, offered, reqStream, goroutines, mainVars, authOK, authCalls, chanVars, reqVars>>

\* mutant of ChannelStreamEnds: for { newChannel := <-channels ... } does not
\* see the stream closing and keeps looping
ChannelStreamEnds_Spins(c) ==
    /\ Running
    /\ hpc[c] = "range"
    /\ chanQueue[c] = <<>>
    /\ streamsEnded[c]
    /\ UNCHANGED vars

\* mutant of ChannelStreamEnds: the loop does not wait on an empty stream and
\* ends while the stream is still open
ChannelStreamEnds_Early(c) ==
    /\ Running
    /\ hpc[c] = "range"
    /\ chanQueue[c] = <<>>
    /\ log' = Emit(c, [Entry("info", MsgDisconnected) EXCEPT !.client = RemoteAddr(c)])
    /\ DeferredClose(c)
    /\ hpc' = [hpc EXCEPT ![c] = "done"]
    /\ UNCHANGED <<hostKey, offered, reqStream, goroutines, mainVars, authOK, authCalls,
                   chanVars, reqVars>>

\* the range loop ends (the stream is closed and nothing is left buffered in
\* it), "Client disconnected" is logged and the function returns, running the
\* deferred close
ChannelStreamEnds(c) ==
    /\ Running
    /\ hpc[c] = "range"
    /\ chanQueue[c] = <<>>
    /\ streamsEnded[c]
    /\ log' = Emit(c, [Entry("info", MsgDisconnected) EXCEPT !.client = RemoteAddr(c)])
    /\ DeferredClose(c)
    /\ hpc' = [hpc EXCEPT ![c] = "done"]
    /\ UNCHANGED <<hostKey, offered, reqStream, goroutines, mainVars, authOK, authCalls, chanVars, reqVars>>

(* ------------- the peer and the library's connection mux --------------- *)
\* the client opens a channel: the mux puts it on the ChannelStream
ClientOpensChannel(c) ==
    /\ Running
    /\ hpc[c] = "range"
    /\ ~streamsEnded[c]
    /\ TotalOpened(Conns) < MaxChans
    /\ LET k == TotalOpened(Conns) + 1 IN
        /\ opened' = [opened EXCEPT ![c] = Append(@, k)]
        /\ chanQueue' = [chanQueue EXCEPT ![c] = Append(@, k)]
    /\ UNCHANGED <<hostKey, offered, reqStream, goroutines, mainVars, log, connVars, chanCalls, chanTask, reqVars>>

\* the transport of an established connection ends (the peer disconnects, a
\* read fails): the mux closes the channel stream and the request stream
TransportEnds(c) ==
    /\ Running
    /\ hpc[c] = "range"
    /\ ~streamsEnded[c]
    /\ streamsEnded' = [streamsEnded EXCEPT ![c] = TRUE]
    /\ UNCHANGED <<hostKey, offered, reqStream, goroutines, mainVars, log, hpc, sock, authOK, authCalls,
                   chanVars, reqVars>>

(* ---------------- the handlers (packages channel, request) ------------- *)
\* channel.Handle returns
ChannelHandlerReturns(k) ==
    /\ Running
    /\ chanTask[k] = "running"
    /\ chanTask' = [chanTask EXCEPT ![k] = "done"]
    /\ UNCHANGED <<hostKey, offered, reqStream, goroutines, mainVars, log, connVars, opened, chanQueue, chanCalls, reqVars>>

\* global requests sent so far in the run
RECURSIVE TotalSent(_)
TotalSent(C) ==
    IF C = {} THEN 0
    ELSE LET c == CHOOSE x \in C : TRUE IN Len(reqSent[c]) + TotalSent(C \ {c})

\* the client sends a global request: the mux puts it on the request stream
ClientSendsRequest(c) ==
    /\ Running
    /\ hpc[c] = "range"
    /\ ~streamsEnded[c]
    /\ TotalSent(Conns) < MaxReqs
    /\ LET r == TotalSent(Conns) + 1 IN
        /\ reqSent' = [reqSent EXCEPT ![c] = Append(@, r)]
        /\ reqQueue' = [reqQueue EXCEPT ![c] = Append(@, r)]
    /\ UNCHANGED <<hostKey, offered, goroutines, mainVars, log, connVars, chanVars,
                   reqVars, reqSeen>>

\* request.Handle receives the next request of the stream it was given
RequestHandlerTakes(c) ==
    /\ Running
    /\ reqTask[c] = "running"
    /\ reqQueue[c] # <<>>
    /\ reqSeen' = [reqSeen EXCEPT ![c] = Append(@, Head(reqQueue[c]))]
    /\ reqQueue' = [reqQueue EXCEPT ![c] = Tail(@)]
    /\ UNCHANGED <<hostKey, offered, goroutines, mainVars, log, connVars, chanVars,
                   reqVars, reqSent>>

\* request.Handle returns: the request stream it drains has been closed and
\* nothing is left buffered in it
RequestHandlerReturns(c) ==
    /\ Running
    /\ reqTask[c] = "running"
    /\ streamsEnded[c]
    /\ reqQueue[c] = <<>>
    /\ reqTask' = [reqTask EXCEPT ![c] = "done"]
    /\ UNCHANGED <<hostKey, offered, reqStream, goroutines, mainVars, log, connVars, chanVars, reqCalls>>

(* ------------------------------- Next --------------------------------- *)
Next ==
    \/ ReadHostKeyFails
    \/ ParseHostKeyFails
    \/ LoadHostKey
    \/ GenerateKeyFails
    \/ NewSignerFails
    \/ GenerateTempKey
    \/ BuildServerConfig
    \/ ListenFails
    \/ Listen
    \/ AcceptFails
    \/ Accept
    \/ \E c \in Conns : PasswordAttempt(c)
    \/ \E c \in Conns : HandshakeSucceeds(c)
    \/ \E c \in Conns : HandshakeFails(c)
    \/ \E c \in Conns : DispatchChannel(c)
    \/ \E c \in Conns : ChannelStreamEnds(c)
    \/ \E c \in Conns : ClientOpensChannel(c)
    \/ \E c \in Conns : TransportEnds(c)
    \/ \E k \in Chans : ChannelHandlerReturns(k)
    \/ \E c \in Conns : RequestHandlerReturns(c)

\* runs in which the clients send no global requests
Spec == Init /\ [][Next]_vars

\* runs in which the clients also send global requests
NextWithRequests ==
    \/ Next
    \/ \E c \in Conns : ClientSendsRequest(c)
    \/ \E c \in Conns : RequestHandlerTakes(c)

SpecWithRequests == Init /\ [][NextWithRequests]_vars

\* the connection channel k was opened on, 0 when it has not been opened
ConnOf(k) ==
    IF \E c \in Conns : \E i \in 1..Len(opened[c]) : opened[c][i] = k
    THEN CHOOSE c \in Conns : \E i \in 1..Len(opened[c]) : opened[c][i] = k
    ELSE 0

\* channel.Handle returns because its connection is gone
ChannelHandlerWindsDown(k) ==
    /\ ConnOf(k) # 0
    /\ streamsEnded[ConnOf(k)]
    /\ ChannelHandlerReturns(k)

\* a step of a goroutine that is runnable once a connection's streams have
\* ended: handleConn's loop, or a handler returning
WindDown ==
    \/ \E c \in Conns : DispatchChannel(c)
    \/ \E c \in Conns : ChannelStreamEnds(c)
    \/ \E c \in Conns : RequestHandlerReturns(c)
    \/ \E k \in Chans : ChannelHandlerWindsDown(k)

\* the Go scheduler does not leave runnable goroutines waiting forever: while
\* one of these steps stays possible, one of them is taken
FairSpec == Spec /\ WF_vars(WindDown)

(* ------------------------- derived predicates -------------------------- *)
\* handleConn(c) has logged message msg
Logged(c, msg) == CountMsg(c, msg) > 0

\* connection c's handshake has failed
HandshakeFailed(c) == Logged(c, MsgHandshakeFailed)

\* connection c has been established
Established(c) == Logged(c, MsgEstablished)

\* the channels of a sequence of channel.Handle invocations
CalledChans(calls) == [i \in 1..Len(calls) |-> calls[i].chan]

\* the record an invocation of the callback has to leave in the log
AuthRecord(call) ==
    [level |-> "info", msg |-> MsgAuthAccepted, client |-> call.client,
     user |-> call.user, password |-> call.password, version |-> call.version,
     fingerprint |-> <<>>]

StartupFailures ==
    {"Failed to read host key:", "Failed to parse host key:",
     "Failed to generate temporary private key:",
     "Failed to parse generated private key:", "Failed to listen:"}

\* a startup step has failed
StartupFailed == \E i \in 1..Len(log[Main]) : log[Main][i].msg \in StartupFailures

(* ------------------------------ claims --------------------------------- *)
\* C1: every invocation of the password callback, whatever the connection, the
\* user name, the password and the invocations before it, returns nil
\* permissions and a nil error (accepted).
C1_PasswordAlwaysAccepted ==
    \A c \in Conns : \A i \in 1..Len(authCalls[c]) :
        /\ authCalls[c][i].err = "nil"
        /\ authCalls[c][i].perms = "nil"

\* C1 witness: the callback has been invoked on two connections, the second
\* after an earlier attempt.
C1_Witness ==
    \E c, d \in Conns : c # d /\ Len(authCalls[c]) > 0 /\ Len(authCalls[d]) > 0

\* C2: the "Password authentication accepted" records are, per connection and
\* in order, exactly one per invocation of the callback, each with that
\* invocation's remote address, user, password and client version; main()
\* writes none, so the number of records equals the number of attempts.
C2_OneRecordPerAttempt ==
    /\ \A c \in Conns :
          SelectMsg(log[c], MsgAuthAccepted)
             = [i \in 1..Len(authCalls[c]) |-> AuthRecord(authCalls[c][i])]
    /\ CountMsg(Main, MsgAuthAccepted) = 0

\* C2 witness: two connections have each had a password attempt, and both
\* records are in the log.
C2_Witness ==
    /\ SumMsg(Writers, MsgAuthAccepted) = 2
    /\ \E c, d \in Conns : c # d /\ Len(authCalls[c]) = 1 /\ Len(authCalls[d]) = 1

\* C3: a step in which connection c's handshake fails leaves main() where it
\* is, the listener bound, and every other connection's state, tasks and
\* records untouched; and whenever some handshake has failed the process is
\* still in its accept loop with the listener open.
C3_HandshakeFailureIsolated ==
    /\ [][\A c \in Conns :
            (hpc[c] = "handshake" /\ hpc'[c] = "done") =>
               /\ pc' = pc /\ listener' = listener
               /\ log'[Main] = log[Main]
               /\ chanTask' = chanTask /\ chanQueue' = chanQueue
               /\ \A d \in Conns \ {c} :
                    /\ hpc'[d] = hpc[d] /\ sock'[d] = sock[d]
                    /\ authOK'[d] = authOK[d] /\ streamsEnded'[d] = streamsEnded[d]
                    /\ log'[d] = log[d] /\ reqTask'[d] = reqTask[d]]_vars
    /\ []((\E c \in Conns : HandshakeFailed(c)) => pc = "accept" /\ listener = "open")

\* C3 witness: a connection is accepted and established after another one's
\* handshake has failed.
C3_Witness ==
    \E c, d \in Conns : c < d /\ HandshakeFailed(c) /\ hpc[d] = "range" /\ sock[d] = "open"

\* C4: whenever handleConn has returned, on the handshake-failure path or
\* after the channel stream ended, the connection's socket is closed.
C4_SocketClosedOnReturn ==
    \A c \in Conns : hpc[c] = "done" => sock[c] = "closed"

\* C4 witness: one supervisor has returned after a failed handshake and one
\* after an established connection ended.
C4_Witness ==
    \E c, d \in Conns :
        /\ hpc[c] = "done" /\ HandshakeFailed(c)
        /\ hpc[d] = "done" /\ Logged(d, MsgDisconnected)

\* C5: while the dispatch loop of a connection is running and a channel is
\* waiting on its stream, the loop can take that channel, whatever the state of
\* the handlers of the channels taken before.
C5_DispatchNeverBlocked ==
    \A c \in Conns :
        (Running /\ hpc[c] = "range" /\ chanQueue[c] # <<>>) => ENABLED DispatchChannel(c)

\* C5 witness: channel B of a connection has been dispatched while the handler
\* of channel A, dispatched before it, is still running.
C5_Witness ==
    \E c \in Conns :
        /\ Len(chanCalls[c]) = 2
        /\ chanTask[chanCalls[c][1].chan] = "running"
        /\ chanTask[chanCalls[c][2].chan] = "running"

\* C6: per connection, the channels handed to channel.Handle followed by the
\* channels still waiting on the stream are the channels opened on it, in
\* order and without repetition (so none is dispatched twice, and none of
\* another connection); each call carries the connection's remote address;
\* calls happen only for an established connection; and when the loop has
\* ended nothing is left undispatched.
C6_EachChannelDispatchedOnce ==
    \A c \in Conns :
        /\ CalledChans(chanCalls[c]) \o chanQueue[c] = opened[c]
        /\ \A i \in 1..Len(chanCalls[c]) : chanCalls[c][i].client = RemoteAddr(c)
        /\ \A i, j \in 1..Len(opened[c]) : opened[c][i] = opened[c][j] => i = j
        /\ \A d \in Conns \ {c} : \A i \in 1..Len(chanCalls[c]) :
              \A j \in 1..Len(opened[d]) : chanCalls[c][i].chan # opened[d][j]
        /\ (chanCalls[c] # <<>> => Established(c))
        /\ (hpc[c] = "done" => chanQueue[c] = <<>>)

\* C6 witness: two connections have ended, each with a channel dispatched.
C6_Witness ==
    \E c, d \in Conns :
        /\ c # d /\ hpc[c] = "done" /\ hpc[d] = "done"
        /\ Len(chanCalls[c]) = 1 /\ Len(chanCalls[d]) = 1

C8_StartupFailureFatal ==
    /\ StartupFailed =>
          /\ pc = "exited"
          /\ listener = "none"
          /\ CountMsg(Main, MsgListening) = 0
          /\ nAccepted = 0
          /\ \A c \in Conns : hpc[c] = "unborn" /\ sock[c] = "none" /\ log[c] = <<>>
    /\ (pc = "exited" => StartupFailed)
    /\ (listener = "open" \/ nAccepted > 0 \/ CountMsg(Main, MsgListening) > 0) =>
          /\ hostKeys = <<key>>
          /\ key \in {"persistent", "ephemeral"}

\* C8 witness: the host key was provisioned and binding the address failed.
C8_Witness ==
    /\ pc = "exited"
    /\ hostKeys # <<>>
    /\ \E i \in 1..Len(log[Main]) : log[Main][i].msg = "Failed to listen:"

\* C9: a step in which Accept() fails logs one warning, leaves main() in the
\* accept loop and starts no connection task; and once the listener is bound
\* main() never leaves the accept loop.
C9_AcceptErrorContinues ==
    /\ [][nAcceptErrs' # nAcceptErrs =>
            /\ pc = "accept" /\ pc' = "accept"
            /\ listener' = listener
            /\ log'[Main] = Append(log[Main], Entry("warning", MsgAcceptFailed))
            /\ nAccepted' = nAccepted
            /\ hpc' = hpc /\ sock' = sock
            /\ reqTask' = reqTask /\ chanTask' = chanTask]_vars
    /\ [](listener = "open" => pc = "accept")

\* C9 witness: a connection was accepted after an Accept() error, and its
\* handshake failed.
C9_Witness ==
    /\ nAcceptErrs = 1
    /\ nAccepted = 1
    /\ FirstMsg(log[Main], MsgAcceptFailed) < FirstMsg(log[Main], MsgConnected)
    /\ HandshakeFailed(1)

\* C10: the temporary-key warning is in the log exactly once when the key was
\* generated (no -host_key) and never when -host_key is given; only main()
\* writes it, and it precedes "Listening".
C10_TempKeyWarningOnce ==
    /\ CountMsg(Main, MsgTempKey) = (IF hostKey = "" /\ key # "nil" THEN 1 ELSE 0)
    /\ \A c \in Conns : CountMsg(c, MsgTempKey) = 0
    /\ (hostKey = "" /\ pc \in {"config", "listen", "accept"}) => key = "ephemeral"
    /\ (listener = "open" /\ hostKey = "") =>
          /\ FirstMsg(log[Main], MsgTempKey) > 0
          /\ FirstMsg(log[Main], MsgTempKey) < FirstMsg(log[Main], MsgListening)

\* C10 witness: a run without -host_key is in its accept loop with connections
\* accepted and the warning logged once.
C10_Witness ==
    /\ hostKey = ""
    /\ nAccepted = MaxAccepts
    /\ CountMsg(Main, MsgTempKey) = 1

\* C11 (as amended): an accepted connection has one supervisor goroutine
\* (handleConn); an established connection has exactly one further goroutine,
\* the request handler, because the channel loop runs in the supervisor
\* itself; and every dispatched channel has one goroutine: 1 + 1 + k, where
\* k counts the channels dispatched, which are all the opened ones once the
\* loop has ended.
C11_GoroutinesPerConnection ==
    \A c \in Conns :
        /\ goroutines[c] =
              (IF hpc[c] = "unborn" THEN <<>> ELSE <<"handleConn">>)
              \o (IF Established(c) THEN <<"request.Handle">> ELSE <<>>)
              \o [i \in 1..Len(chanCalls[c]) |-> "channel.Handle"]
        /\ Established(c) => Len(goroutines[c]) = 1 + 1 + Len(chanCalls[c])
        /\ hpc[c] = "done" => Len(chanCalls[c]) = Len(opened[c])

\* C11 witness: an established connection with two channels dispatched.
C11_Witness ==
    \E c \in Conns : Established(c) /\ Len(chanCalls[c]) = 2 /\ Len(goroutines[c]) = 4

\* C11 as stated: an established connection whose loop has ended, with k
\* channels opened, has had 1 + 2 + k goroutines started for it.
C11_Original ==
    \A c \in Conns :
        (Established(c) /\ hpc[c] = "done") =>
            Len(goroutines[c]) = 1 + 2 + Len(opened[c])

\* C12: a connection whose handshake has failed has logged the warning as its
\* last record, has returned with its socket closed, has never logged "SSH
\* connection established" or "Client disconnected", and has had neither
\* request.Handle nor channel.Handle invoked or started for it; the step that
\* fails the handshake takes the connection from handshaking to closed.
C12_FailedHandshakeEndsConnection ==
    /\ [](\A c \in Conns :
            HandshakeFailed(c) =>
               /\ hpc[c] = "done" /\ sock[c] = "closed"
               /\ CountMsg(c, MsgHandshakeFailed) = 1
               /\ log[c][Len(log[c])] = Entry("warning", MsgHandshakeFailed)
               /\ ~Established(c) /\ ~Logged(c, MsgDisconnected)
               /\ reqCalls[c] = <<>> /\ reqTask[c] = "none"
               /\ chanCalls[c] = <<>> /\ opened[c] = <<>>
               /\ goroutines[c] = <<"handleConn">>)
    /\ [][\A c \in Conns :
            (~HandshakeFailed(c) /\ HandshakeFailed(c)') =>
                (hpc[c] = "handshake" /\ hpc'[c] = "done")]_vars

\* C12 witness: a handshake has failed after the password was accepted.
C12_Witness ==
    \E c \in Conns : HandshakeFailed(c) /\ authOK[c] /\ sock[c] = "closed"

\* C13: request.Handle has been invoked for a connection exactly when the
\* connection is established, and then exactly once, with the connection's
\* remote address, the category "global" and the connection's own request
\* stream; no stream is handed to two invocations.
C13_RequestHandlerOncePerConnection ==
    /\ \A c \in Conns :
          reqCalls[c] = IF Established(c)
                        THEN <<[client |-> RemoteAddr(c), category |-> "global",
                                stream |-> c]>>
                        ELSE <<>>
    /\ \A c \in Conns : (reqTask[c] # "none") <=> Established(c)
    /\ \A c, d \in Conns : \A i \in 1..Len(reqCalls[c]) : \A j \in 1..Len(reqCalls[d]) :
          reqCalls[c][i].stream = reqCalls[d][j].stream => (c = d /\ i = j)

\* C13 witness: two connections are established, each with its own handler.
C13_Witness ==
    \E c, d \in Conns : c # d /\ Len(reqCalls[c]) = 1 /\ Len(reqCalls[d]) = 1

\* C14: within one connection the requests request.Handle has received,
\* followed by those still waiting on the stream, are the requests in the
\* order they arrived; and the channels handed to channel.Handle, followed by
\* those still waiting, are the channels in the order they were opened.
C14_ArrivalOrderPerConnection ==
    \A c \in Conns :
        /\ reqSeen[c] \o reqQueue[c] = reqSent[c]
        /\ \A i, j \in 1..Len(reqSeen[c]) : i < j => reqSeen[c][i] < reqSeen[c][j]
        /\ CalledChans(chanCalls[c]) \o chanQueue[c] = opened[c]
        /\ \A i, j \in 1..Len(chanCalls[c]) : i < j => chanCalls[c][i].chan < chanCalls[c][j].chan

\* C14 witness: on one connection two requests have been delivered and two
\* channels dispatched, and the handler of the second channel has returned
\* before the handler of the first.
C14_Witness ==
    \E c \in Conns :
        /\ Len(reqSeen[c]) = 2
        /\ Len(chanCalls[c]) = 2
        /\ chanTask[chanCalls[c][1].chan] = "running"
        /\ chanTask[chanCalls[c][2].chan] = "done"

\* C15: once the streams of an established connection have ended, the loop
\* ends, "Client disconnected" is logged and the supervisor returns; the
\* record is logged at most once, only by a step that finds the streams ended
\* and the stream drained, and never while the streams are still open.
C15_DisconnectedAfterStreamsEnd ==
    /\ \A c \in Conns :
          (hpc[c] = "range" /\ streamsEnded[c]) ~>
              (hpc[c] = "done" /\ CountMsg(c, MsgDisconnected) = 1)
    /\ [](\A c \in Conns : CountMsg(c, MsgDisconnected) <= 1)
    /\ [](\A c \in Conns : ~streamsEnded[c] => ~Logged(c, MsgDisconnected))
    /\ [][\A c \in Conns :
            (~Logged(c, MsgDisconnected) /\ Logged(c, MsgDisconnected)') =>
                (streamsEnded[c] /\ chanQueue[c] = <<>> /\ hpc[c] = "range"
                 /\ hpc'[c] = "done")]_vars

\* C15 witness: a connection whose peer went away with a channel still
\* buffered has dispatched it, logged "Client disconnected" and returned.
C15_Witness ==
    \E c \in Conns :
        /\ hpc[c] = "done" /\ CountMsg(c, MsgDisconnected) = 1
        /\ Len(chanCalls[c]) = 1 /\ sock[c] = "closed"

\* C16: the host key changes only during provisioning and the configuration's
\* key list only when the configuration is built, before the listener is bound
\* and before any connection; from then on the list holds exactly the one
\* provisioned key, whatever the connections do.
C16_ServerConfigFixed ==
    /\ [][key' # key => pc = "provision"]_vars
    /\ [][hostKeys' # hostKeys =>
            (pc = "config" /\ hostKeys = <<>> /\ hostKeys' = <<key>>
             /\ listener = "none" /\ nAccepted = 0)]_vars
    /\ []((pc \in {"listen", "accept"} \/ listener = "open") =>
            (hostKeys = <<key>> /\ key \in {"persistent", "ephemeral"}))

\* C16 witness: with the key installed, connections were accepted, one
\* authenticated and was established with a channel dispatched, one failed.
C16_Witness ==
    /\ Len(hostKeys) = 1
    /\ \E c, d \in Conns :
          /\ Len(authCalls[c]) = 1 /\ Len(chanCalls[c]) = 1 /\ hpc[c] = "done"
          /\ HandshakeFailed(d)

\* the "Client connected" records main() has written for connection c
Connected(c) ==
    Len(SelectSeq(log[Main],
                  LAMBDA e : e.msg = MsgConnected /\ e.client = RemoteAddr(c)))

\* C17: per connection "Client connected", "SSH connection established" and
\* "Client disconnected" are each logged at most once; handleConn logs
\* nothing before "Client connected"; "Client disconnected" comes only after
\* "SSH connection established"; a connection whose handshake failed has
\* "Client connected" and one warning, and never "Client disconnected".
C17_LogLifecycleOrder ==
    \A c \in Conns :
        /\ Connected(c) = (IF hpc[c] = "unborn" THEN 0 ELSE 1)
        /\ CountMsg(c, MsgEstablished) <= 1
        /\ CountMsg(c, MsgDisconnected) <= 1
        /\ CountMsg(c, MsgConnected) = 0
        /\ CountMsg(Main, MsgEstablished) = 0 /\ CountMsg(Main, MsgDisconnected) = 0
        /\ (log[c] # <<>> => Connected(c) = 1)
        /\ (Logged(c, MsgDisconnected) =>
               /\ Established(c)
               /\ FirstMsg(log[c], MsgEstablished) < FirstMsg(log[c], MsgDisconnected)
               /\ FirstMsg(log[c], MsgDisconnected) = Len(log[c]))
        /\ (HandshakeFailed(c) =>
               /\ Connected(c) = 1
               /\ CountMsg(c, MsgHandshakeFailed) = 1
               /\ ~Logged(c, MsgDisconnected))

\* C17 witness: one connection has gone through connected, established and
\* disconnected, and another one's handshake has failed.
C17_Witness ==
    \E c, d \in Conns :
        /\ Connected(c) = 1 /\ Established(c) /\ Logged(c, MsgDisconnected)
        /\ Connected(d) = 1 /\ HandshakeFailed(d)

\* C18: while Accept() calls remain, main() in its accept loop can accept the
\* next connection whatever the connections before are doing; a handshaking
\* connection can go on with its handshake whatever the others are doing; and
\* a connection still handshaking has its socket open and has not returned.
C18_HandshakeOffTheAcceptLoop ==
    /\ (pc = "accept" /\ nAccepted + nAcceptErrs < MaxAccepts) => ENABLED Accept
    /\ \A c \in Conns :
          (Running /\ hpc[c] = "handshake") =>
              /\ sock[c] = "open"
              /\ ~Logged(c, MsgHandshakeFailed)
              /\ (~authOK[c] => ENABLED PasswordAttempt(c))
              /\ (authOK[c] => ENABLED HandshakeSucceeds(c))

\* C18 witness: a connection accepted after one whose handshake has not moved
\* is established, has a channel dispatched and has ended.
C18_Witness ==
    \E c, d \in Conns :
        /\ c < d
        /\ hpc[c] = "handshake" /\ authCalls[c] = <<>> /\ sock[c] = "open"
        /\ Established(d) /\ Len(chanCalls[d]) = 1 /\ hpc[d] = "done"

\* C19: an established connection has had the password callback invoked, and
\* its "Password authentication accepted" record precedes its "SSH connection
\* established" record; a connection for which the callback was never invoked
\* is not established and has no handler started.
C19_EstablishedOnlyAfterPassword ==
    \A c \in Conns :
        /\ Established(c) =>
              /\ Len(authCalls[c]) >= 1
              /\ FirstMsg(log[c], MsgAuthAccepted) > 0
              /\ FirstMsg(log[c], MsgAuthAccepted) < FirstMsg(log[c], MsgEstablished)
        /\ authCalls[c] = <<>> =>
              /\ ~Established(c)
              /\ hpc[c] \in {"unborn", "handshake", "done"}
              /\ reqCalls[c] = <<>> /\ chanCalls[c] = <<>>

\* C19 witness: one connection is established after a password attempt, and
\* another, whose client never offered a password, has failed its handshake.
C19_Witness ==
    \E c, d \in Conns :
        /\ Established(c) /\ Len(authCalls[c]) = 1
        /\ authCalls[d] = <<>> /\ HandshakeFailed(d)

====
